---- MODULE Spec2Model ----
(***************************************************************************)
(* Top-to-bottom execution of the two tutorial notebooks                   *)
(*   src/tutorials/tutorial_3.ipynb  and  src/tutorials/opm_source.ipynb.  *)
(*                                                                         *)
(* A notebook is a list of cells, a cell a list of statements.  Every      *)
(* statement is broken into the calls Python evaluates one after another   *)
(* (a chained expression  Simulation(..).simulate(..)  is two steps that   *)
(* hand the intermediate object over in tmp).  The state is the kernel's   *)
(* namespace (env), the objects the calls created (heap), the files and    *)
(* network the calls touched, and the position in the notebook.            *)
(***************************************************************************)
EXTENDS Integers, Sequences, FiniteSets, TLC

VARIABLES nb, pc, status, env, tmp, heap, trace, cached, persisted, online, coil,
          partial

vars == <<nb, pc, status, env, tmp, heap, trace, cached, persisted, online, coil,
          partial>>

(* Number of distinct outcomes of one random draw of simulate(). *)
MaxSeed == 2

Notebooks == {"tutorial_3", "opm_source"}

-----------------------------------------------------------------------------
(* Values of the namespace and expressions of a statement.                 *)

Nil == [k |-> "none", id |-> 0, s |-> ""]
Num(n) == [k |-> "int", id |-> n, s |-> ""]
Str(x) == [k |-> "str", id |-> 0, s |-> x]
Ref(i) == [k |-> "ref", id |-> i, s |-> ""]
(* a name looked up in the namespace; "$" is the value of the enclosing    *)
(* expression's previous call                                              *)
Var(x) == [k |-> "var", id |-> 0, s |-> x]
Callable(x) == [k |-> "callable", id |-> 0, s |-> x]

St(cell, line, op, dst, args) ==
    [cell |-> cell, line |-> line, op |-> op, dst |-> dst, args |-> args]

-----------------------------------------------------------------------------
(* Settings mappings.  A range (low, high) is <<low, high>>; a categorical *)
(* value is a string; duration_of_trial is kept in milliseconds.           *)

Range(lo, hi) == [t |-> "range", lo |-> lo, hi |-> hi, v |-> ""]
Cat(x) == [t |-> "cat", lo |-> 0, hi |-> 0, v |-> x]
Scalar(n) == [t |-> "scalar", lo |-> n, hi |-> n, v |-> ""]

(* settings_small with the extents key misspelt and its range reversed      *)
settings_small_typo == ("number_of_sources" :> Range(1, 10)) @@ ("extent" :> Range(25, 15))

settings_small == ("number_of_sources" :> Range(1, 10)) @@ ("extents" :> Range(15, 25))

settings_large == ("number_of_sources" :> Range(1, 10)) @@ ("extents" :> Range(35, 45))

settings_diverse ==
    ("number_of_sources" :> Range(1, 20)) @@ ("extents" :> Range(1, 50))
    @@ ("amplitudes" :> Range(1, 100)) @@ ("shapes" :> Cat("both"))
    @@ ("beta" :> Range(0, 3))

settings_opm == ("duration_of_trial" :> Scalar(100))

Dict(d) == [k |-> "dict", id |-> 0, s |-> "", d |-> d]

-----------------------------------------------------------------------------
(* tutorial_3.ipynb, code cells in notebook order.                         *)

T3Cell1 == <<
    St(1, 29, "import", "", <<Str("Simulation"), Str("Net"),
                              Str("create_forward_model"), Str("get_info")>>),
    St(1, 32, "assign", "plot_params", <<Str("surface=white,hemi=both,verbose=0")>>) >>

T3Cell3 == <<
    St(3, 71, "get_info", "info", <<Num(100)>>),
    St(3, 72, "create_forward_model", "fwd", <<Var("info"), Nil>>) >>

T3Cell5 == <<
    St(5, 154, "assign", "n_samples", <<Num(1000)>>),
    St(5, 155, "dict", "settings_small", <<Dict(settings_small)>>),
    St(5, 156, "dict", "settings_large", <<Dict(settings_large)>>),
    St(5, 158, "Simulation", "$", <<Var("fwd"), Var("info"), Var("settings_small")>>),
    St(5, 158, "simulate", "sim_small", <<Var("$"), Var("n_samples")>>),
    St(5, 159, "Simulation", "$", <<Var("fwd"), Var("info"), Var("settings_large")>>),
    St(5, 159, "simulate", "sim_large", <<Var("$"), Var("n_samples")>>) >>

T3Cell7 == <<
    St(7, 176, "assign", "idx", <<Num(0)>>),
    St(7, 177, "source_data", "$", <<Var("sim_small"), Var("idx")>>),
    St(7, 177, "plot", "brain", <<Var("$")>>),
    St(7, 178, "add_text", "", <<Var("brain"), Str("Small sources")>>),
    St(7, 181, "source_data", "$", <<Var("sim_large"), Var("idx")>>),
    St(7, 181, "plot", "brain", <<Var("$")>>),
    St(7, 182, "add_text", "", <<Var("brain"), Str("Large sources")>>) >>

(* cell 9 with the second net trained for more epochs                      *)
T3Cell9OtherTraining == <<
    St(9, 280, "assign", "model_type", <<Str("FC")>>),
    St(9, 281, "Net", "$", <<Var("fwd"), Var("model_type"), Num(1)>>),
    St(9, 281, "fit", "net_small", <<Var("$"), Var("sim_small"), Num(10)>>),
    St(9, 282, "Net", "$", <<Var("fwd"), Var("model_type"), Num(1)>>),
    St(9, 282, "fit", "net_large", <<Var("$"), Var("sim_large"), Num(100)>>) >>

(* cell 9 with the second net trained on the first net's data              *)
T3Cell9SameData == <<
    St(9, 280, "assign", "model_type", <<Str("FC")>>),
    St(9, 281, "Net", "$", <<Var("fwd"), Var("model_type"), Num(1)>>),
    St(9, 281, "fit", "net_small", <<Var("$"), Var("sim_small"), Num(10)>>),
    St(9, 282, "Net", "$", <<Var("fwd"), Var("model_type"), Num(1)>>),
    St(9, 282, "fit", "net_large", <<Var("$"), Var("sim_small"), Num(10)>>) >>

T3Cell9 == <<
    St(9, 280, "assign", "model_type", <<Str("FC")>>),
    St(9, 281, "Net", "$", <<Var("fwd"), Var("model_type"), Num(1)>>),
    St(9, 281, "fit", "net_small", <<Var("$"), Var("sim_small"), Num(10)>>),
    St(9, 282, "Net", "$", <<Var("fwd"), Var("model_type"), Num(1)>>),
    St(9, 282, "fit", "net_large", <<Var("$"), Var("sim_large"), Num(10)>>) >>

(* cell 11 with the test data drawn again from the training Simulations    *)
T3Cell11Resimulate == <<
    St(11, 377, "assign", "n_test_samples", <<Num(2)>>),
    St(11, 378, "simulate", "sim_test_small", <<Var("sim_small"), Var("n_test_samples")>>),
    St(11, 379, "simulate", "sim_test_large", <<Var("sim_large"), Var("n_test_samples")>>) >>

(* cell 11 with both test sets simulated from settings_small               *)
T3Cell11SameSettings == <<
    St(11, 377, "assign", "n_test_samples", <<Num(2)>>),
    St(11, 378, "Simulation", "$", <<Var("fwd"), Var("info"), Var("settings_small")>>),
    St(11, 378, "simulate", "sim_test_small", <<Var("$"), Var("n_test_samples")>>),
    St(11, 379, "Simulation", "$", <<Var("fwd"), Var("info"), Var("settings_small")>>),
    St(11, 379, "simulate", "sim_test_large", <<Var("$"), Var("n_test_samples")>>) >>

T3Cell11Simulate == <<
    St(11, 377, "assign", "n_test_samples", <<Num(2)>>),
    St(11, 378, "Simulation", "$", <<Var("fwd"), Var("info"), Var("settings_small")>>),
    St(11, 378, "simulate", "sim_test_small", <<Var("$"), Var("n_test_samples")>>),
    St(11, 379, "Simulation", "$", <<Var("fwd"), Var("info"), Var("settings_large")>>),
    St(11, 379, "simulate", "sim_test_large", <<Var("$"), Var("n_test_samples")>>) >>

(* cell 11 with the small net shown on the data it was trained on          *)
T3Cell11PredictTrain == <<
    St(11, 382, "source_data", "$", <<Var("sim_test_small"), Num(0)>>),
    St(11, 382, "plot", "brain", <<Var("$")>>),
    St(11, 383, "add_text", "", <<Var("brain"), Str("Ground Truth of small data")>>),
    St(11, 387, "predict", "$", <<Var("net_small"), Var("sim_small")>>),
    St(11, 387, "getitem", "$", <<Var("$"), Num(0)>>),
    St(11, 387, "plot", "brain", <<Var("$")>>),
    St(11, 388, "add_text", "", <<Var("brain"), Str("Small-Net on small data")>>),
    St(11, 393, "source_data", "$", <<Var("sim_test_large"), Num(0)>>),
    St(11, 393, "plot", "brain", <<Var("$")>>),
    St(11, 394, "add_text", "", <<Var("brain"), Str("Ground Truth of large data")>>),
    St(11, 398, "predict", "$", <<Var("net_large"), Var("sim_test_large")>>),
    St(11, 398, "getitem", "$", <<Var("$"), Num(0)>>),
    St(11, 398, "plot", "brain", <<Var("$")>>),
    St(11, 399, "add_text", "", <<Var("brain"), Str("Large-Net on large data")>>) >>

T3Cell11Predict == <<
    St(11, 382, "source_data", "$", <<Var("sim_test_small"), Num(0)>>),
    St(11, 382, "plot", "brain", <<Var("$")>>),
    St(11, 383, "add_text", "", <<Var("brain"), Str("Ground Truth of small data")>>),
    St(11, 387, "predict", "$", <<Var("net_small"), Var("sim_test_small")>>),
    St(11, 387, "getitem", "$", <<Var("$"), Num(0)>>),
    St(11, 387, "plot", "brain", <<Var("$")>>),
    St(11, 388, "add_text", "", <<Var("brain"), Str("Small-Net on small data")>>),
    St(11, 393, "source_data", "$", <<Var("sim_test_large"), Num(0)>>),
    St(11, 393, "plot", "brain", <<Var("$")>>),
    St(11, 394, "add_text", "", <<Var("brain"), Str("Ground Truth of large data")>>),
    St(11, 398, "predict", "$", <<Var("net_large"), Var("sim_test_large")>>),
    St(11, 398, "getitem", "$", <<Var("$"), Num(0)>>),
    St(11, 398, "plot", "brain", <<Var("$")>>),
    St(11, 399, "add_text", "", <<Var("brain"), Str("Large-Net on large data")>>) >>

(* cell 13 with the second prediction copied from cell 11 unchanged        *)
T3Cell13NotCrossed == <<
    St(13, 427, "source_data", "$", <<Var("sim_test_small"), Num(0)>>),
    St(13, 427, "plot", "brain", <<Var("$")>>),
    St(13, 428, "add_text", "", <<Var("brain"), Str("Ground Truth of small data")>>),
    St(13, 432, "predict", "$", <<Var("net_large"), Var("sim_test_small")>>),
    St(13, 432, "getitem", "$", <<Var("$"), Num(0)>>),
    St(13, 432, "plot", "brain", <<Var("$")>>),
    St(13, 433, "add_text", "", <<Var("brain"), Str("Large-Net on small data")>>),
    St(13, 438, "source_data", "$", <<Var("sim_test_large"), Num(0)>>),
    St(13, 438, "plot", "brain", <<Var("$")>>),
    St(13, 439, "add_text", "", <<Var("brain"), Str("Ground Truth of large data")>>),
    St(13, 443, "predict", "$", <<Var("net_large"), Var("sim_test_large")>>),
    St(13, 443, "getitem", "$", <<Var("$"), Num(0)>>),
    St(13, 443, "plot", "brain", <<Var("$")>>),
    St(13, 444, "add_text", "", <<Var("brain"), Str("Small-Net on large data")>>) >>

T3Cell13 == <<
    St(13, 427, "source_data", "$", <<Var("sim_test_small"), Num(0)>>),
    St(13, 427, "plot", "brain", <<Var("$")>>),
    St(13, 428, "add_text", "", <<Var("brain"), Str("Ground Truth of small data")>>),
    St(13, 432, "predict", "$", <<Var("net_large"), Var("sim_test_small")>>),
    St(13, 432, "getitem", "$", <<Var("$"), Num(0)>>),
    St(13, 432, "plot", "brain", <<Var("$")>>),
    St(13, 433, "add_text", "", <<Var("brain"), Str("Large-Net on small data")>>),
    St(13, 438, "source_data", "$", <<Var("sim_test_large"), Num(0)>>),
    St(13, 438, "plot", "brain", <<Var("$")>>),
    St(13, 439, "add_text", "", <<Var("brain"), Str("Ground Truth of large data")>>),
    St(13, 443, "predict", "$", <<Var("net_small"), Var("sim_test_large")>>),
    St(13, 443, "getitem", "$", <<Var("$"), Num(0)>>),
    St(13, 443, "plot", "brain", <<Var("$")>>),
    St(13, 444, "add_text", "", <<Var("brain"), Str("Small-Net on large data")>>) >>

T3Cell15 == <<
    St(15, 469, "dict", "settings", <<Dict(settings_diverse)>>) >>

Tutorial3 ==
    T3Cell1 \o T3Cell3 \o T3Cell5 \o T3Cell7 \o T3Cell9 \o T3Cell11Simulate
    \o T3Cell11Predict \o T3Cell13
    \o T3Cell15

-----------------------------------------------------------------------------
(* opm_source.ipynb, code cells in notebook order.  print() and the        *)
(* %matplotlib magic bind nothing and are left out.                        *)

OpmCell1 == <<
    St(1, 28, "import", "", <<Str("op"), Str("np"), Str("mne")>>),
    St(1, 32, "data_path", "data_path", <<>>),
    St(1, 33, "assign", "subject", <<Str("OPM_sample")>>),
    St(1, 34, "assign", "subjects_dir", <<Str("subjects")>>),
    St(1, 35, "assign", "raw_fname", <<Str("OPM_SEF_raw.fif")>>),
    St(1, 36, "assign", "bem_fname", <<Str("OPM_sample-5120-5120-5120-bem-sol.fif")>>),
    St(1, 38, "assign", "fwd_fname", <<Str("OPM_sample-fwd.fif")>>),
    St(1, 39, "assign", "coil_def_fname", <<Str("coil_def.dat")>>) >>

OpmCell3 == <<
    St(3, 59, "read_raw_fif", "raw", <<Var("raw_fname")>>),
    St(3, 60, "filter", "", <<Var("raw"), Str("lowpass 90")>>),
    St(3, 61, "filter", "", <<Var("raw"), Str("notch 50")>>),
    St(3, 65, "assign", "reject", <<Str("mag=2e-10")>>),
    St(3, 66, "assign", "tmin", <<Num(-500)>>),
    St(3, 66, "assign", "tmax", <<Num(1000)>>),
    St(3, 69, "assign", "event_id", <<Str("Median=257")>>),
    St(3, 70, "mne_call", "events", <<Str("find_events"), Var("raw")>>),
    St(3, 71, "pick_types", "picks", <<Var("raw")>>),
    St(3, 74, "Epochs", "epochs", <<Var("raw"), Var("events"), Var("picks")>>),
    St(3, 77, "average", "evoked", <<Var("epochs")>>),
    St(3, 78, "plot", "", <<Var("evoked")>>),
    St(3, 79, "mne_call", "cov", <<Str("compute_covariance"), Var("epochs")>>) >>

(* cell 5 with the forward solution computed outside use_coil_def          *)
OpmCell5ForwardNoCoilDef == <<
    St(5, 106, "mne_call", "bem", <<Str("read_bem_solution"), Var("bem_fname")>>),
    St(5, 107, "mne_call", "trans", <<Str("Transform"), Nil>>),
    St(5, 109, "mne_call", "src", <<Str("setup_source_space"), Var("subject")>>),
    St(5, 116, "make_forward_solution", "fwd",
               <<Var("raw"), Var("trans"), Var("src"), Var("bem")>>) >>

OpmCell5Forward == <<
    St(5, 106, "mne_call", "bem", <<Str("read_bem_solution"), Var("bem_fname")>>),
    St(5, 107, "mne_call", "trans", <<Str("Transform"), Nil>>),
    St(5, 109, "mne_call", "src", <<Str("setup_source_space"), Var("subject")>>),
    St(5, 115, "use_coil_def", "", <<Var("coil_def_fname")>>),
    St(5, 116, "make_forward_solution", "fwd",
               <<Var("raw"), Var("trans"), Var("src"), Var("bem")>>),
    St(5, 118, "exit_coil_def", "", <<>>) >>

OpmCell5Convert == <<
    St(5, 122, "convert_forward_solution", "", <<Var("fwd")>>) >>

OpmCell5Align == <<
    St(5, 124, "use_coil_def", "", <<Var("coil_def_fname")>>),
    St(5, 125, "plot_alignment", "fig", <<Var("evoked"), Var("trans"), Var("bem")>>),
    St(5, 127, "exit_coil_def", "", <<>>),
    St(5, 129, "mne_call", "", <<Str("set_3d_view"), Var("fig")>>) >>

OpmCell7 == <<
    St(7, 150, "use_coil_def", "", <<Var("coil_def_fname")>>),
    St(7, 151, "copy_crop", "$", <<Var("evoked")>>),
    St(7, 151, "fit_dipole", "dip_opm", <<Var("$"), Var("cov"), Var("bem"), Var("trans")>>),
    St(7, 152, "exit_coil_def", "", <<>>),
    St(7, 153, "mne_call", "idx", <<Str("argmax"), Var("dip_opm")>>),
    St(7, 158, "plot", "", <<Var("dip_opm")>>) >>

OpmCell9 == <<
    St(9, 181, "make_inverse_operator", "inverse_operator",
               <<Var("evoked"), Var("fwd"), Var("cov")>>),
    St(9, 184, "assign", "method", <<Str("MNE")>>),
    St(9, 185, "assign", "snr", <<Num(3)>>),
    St(9, 187, "mne_call", "initial_time", <<Str("argmax"), Var("evoked")>>),
    St(9, 188, "apply_inverse", "stc", <<Var("evoked"), Var("inverse_operator")>>),
    St(9, 193, "plot", "brain", <<Var("stc")>>) >>

OpmCell12 == <<
    St(12, 223, "import", "", <<Str("Simulation"), Str("Net")>>),
    St(12, 226, "set_config", "", <<Str("SUBJECTS_DIR"), Var("subjects_dir")>>),
    St(12, 227, "assign", "model_type", <<Str("LSTM")>>),
    St(12, 229, "Simulation", "$", <<Var("fwd"), Var("epochs"), Nil>>),
    St(12, 229, "simulate", "sim", <<Var("$"), Num(1000)>>),
    St(12, 230, "Net", "net", <<Var("fwd"), Var("model_type"), Nil>>),
    St(12, 231, "fit", "", <<Var("net"), Var("sim"), Num(10)>>) >>

OpmCell14 == <<
    St(14, 247, "predict", "$", <<Var("net"), Var("evoked")>>),
    St(14, 247, "getitem", "stc_lstm", <<Var("$"), Num(0)>>),
    St(14, 250, "plot", "brain", <<Var("stc_lstm")>>) >>

OpmCell15Forward == <<
    St(15, 265, "import", "", <<Str("mne"), Str("Simulation"), Str("Net"),
                                Str("create_forward_model"), Str("get_info")>>),
    St(15, 269, "get_info", "info", <<Nil>>),
    St(15, 270, "create_forward_model", "fwd", <<Var("info"), Str("ico2")>>) >>

(* cell 15 with the net trained before the data is simulated               *)
OpmCell15FitFirst == <<
    St(15, 273, "dict", "settings", <<Dict(settings_opm)>>),
    St(15, 274, "Simulation", "sim", <<Var("fwd"), Var("info"), Var("settings")>>),
    St(15, 278, "Net", "net", <<Var("fwd"), Nil, Nil>>),
    St(15, 279, "fit", "", <<Var("net"), Var("sim"), Nil>>),
    St(15, 275, "simulate", "", <<Var("sim"), Num(200)>>) >>

OpmCell15Train == <<
    St(15, 273, "dict", "settings", <<Dict(settings_opm)>>),
    St(15, 274, "Simulation", "sim", <<Var("fwd"), Var("info"), Var("settings")>>),
    St(15, 275, "simulate", "", <<Var("sim"), Num(200)>>),
    St(15, 278, "Net", "net", <<Var("fwd"), Nil, Nil>>),
    St(15, 279, "fit", "", <<Var("net"), Var("sim"), Nil>>) >>

(* cell 15 with the new net applied to the OPM recording of cell 14        *)
OpmCell15PredictEvoked == <<
    St(15, 281, "predict", "$", <<Var("net"), Var("evoked")>>),
    St(15, 281, "getitem", "stc", <<Var("$"), Num(0)>>),
    St(15, 282, "source_data", "$", <<Var("sim"), Num(0)>>),
    St(15, 282, "plot", "", <<Var("$")>>),
    St(15, 283, "plot", "", <<Var("stc")>>) >>

(* cell 15 with the net applied to the prediction of cell 14               *)
OpmCell15PredictOnPrediction == <<
    St(15, 281, "predict", "$", <<Var("net"), Var("stc_lstm")>>),
    St(15, 281, "getitem", "stc", <<Var("$"), Num(0)>>),
    St(15, 282, "source_data", "$", <<Var("sim"), Num(0)>>),
    St(15, 282, "plot", "", <<Var("$")>>),
    St(15, 283, "plot", "", <<Var("stc")>>) >>

OpmCell15Predict == <<
    St(15, 281, "predict", "$", <<Var("net"), Var("sim")>>),
    St(15, 281, "getitem", "stc", <<Var("$"), Num(0)>>),
    St(15, 282, "source_data", "$", <<Var("sim"), Num(0)>>),
    St(15, 282, "plot", "", <<Var("$")>>),
    St(15, 283, "plot", "", <<Var("stc")>>) >>

OpmCell5 == OpmCell5Forward \o OpmCell5Convert \o OpmCell5Align

OpmCell15 == OpmCell15Forward \o OpmCell15Train \o OpmCell15Predict

(* the notebook with the conversion to fixed orientation run only after    *)
(* the inverse operator has been made                                      *)
OpmSourceLateConvert ==
    OpmCell1 \o OpmCell3 \o OpmCell5Forward \o OpmCell5Align \o OpmCell7 \o OpmCell9
    \o OpmCell5Convert \o OpmCell12 \o OpmCell14 \o OpmCell15

OpmSource ==
    OpmCell1 \o OpmCell3 \o OpmCell5 \o OpmCell7 \o OpmCell9 \o OpmCell12
    \o OpmCell14 \o OpmCell15

Program(n) == IF n = "tutorial_3" THEN Tutorial3 ELSE OpmSource

-----------------------------------------------------------------------------
(* Sensors.  The esinet template info carries EEG channels; the OPM        *)
(* recording carries magnetometers and the stimulus channel STI101.        *)

TemplateChs == {"Fz", "Cz", "Pz"}
OpmMeg == {"OPM1", "OPM2", "OPM3"}
OpmStim == {"STI101"}
OpmRawChs == OpmMeg \cup OpmStim

(* mne.pick_types(info, meg=True, eeg=False): the MEG channels of info     *)
(* that are not marked bad                                                 *)
PickMeg(chs, bads) == (chs \cap OpmMeg) \ bads

(* the channels a forward solution is computed for (meg=True, eeg=False)   *)
ForwardChs(chs) == chs \cap OpmMeg

-----------------------------------------------------------------------------
(* The interpreter.                                                        *)

Prog == Program(nb)
Cur == Prog[pc]

Eval(e) == IF e.k = "var" THEN (IF e.s = "$" THEN tmp ELSE env[e.s]) ELSE e
Bound(e) == (e.k = "var" /\ e.s # "$") => e.s \in DOMAIN env
A(i) == Eval(Cur.args[i])
IsT(v, types) == v.k = "ref" /\ v.id \in DOMAIN heap /\ heap[v.id].t \in types
IdOf(v) == IF v.k = "ref" THEN v.id ELSE 0

(* the imported name a call needs in the namespace                         *)
MneOps == {"data_path", "read_raw_fif", "mne_call", "pick_types", "Epochs",
           "use_coil_def", "make_forward_solution", "convert_forward_solution",
           "plot_alignment", "fit_dipole", "make_inverse_operator",
           "apply_inverse", "set_config"}
Needs(o) ==
    IF o \in MneOps THEN {"mne"}
    ELSE IF o \in {"Simulation", "Net", "get_info", "create_forward_model"} THEN {o}
    ELSE {}

(* statements that evaluate literals only and cannot raise                 *)
PureOps == {"assign", "dict", "exit_coil_def"}

Running == status = "run" /\ pc \in DOMAIN Prog
NamesBound ==
    /\ \A i \in DOMAIN Cur.args : Bound(Cur.args[i])
    /\ Needs(Cur.op) \subseteq DOMAIN env
Ready(o) == Running /\ Cur.op = o /\ NamesBound

Call(a, b, out) ==
    [op |-> Cur.op, cell |-> Cur.cell, line |-> Cur.line, a |-> a, b |-> b, out |-> out,
     coil |-> coil]

Bind(dst, val) ==
    /\ tmp' = IF dst = "$" THEN val ELSE Nil
    /\ env' = IF dst \in {"$", ""} THEN env ELSE (dst :> val) @@ env

New == Len(heap) + 1

(* the statement completes: its value is bound, the heap is newheap        *)
Step(val, newheap, a, b) ==
    /\ pc' = pc + 1
    /\ heap' = newheap
    /\ Bind(Cur.dst, val)
    /\ trace' = Append(trace, Call(a, b, IdOf(val)))
    /\ UNCHANGED <<nb, status, cached, partial>>

Create(obj, a, b) == Step(Ref(New), Append(heap, obj), a, b)

Init ==
    /\ nb \in Notebooks
    /\ cached \in BOOLEAN
    /\ pc = 1
    /\ status = "run"
    /\ env = <<>>
    /\ tmp = Nil
    /\ heap = <<>>
    /\ trace = <<>>
    /\ persisted = {}
    /\ online = FALSE
    /\ coil = 0
    /\ partial = {}

NoIO == UNCHANGED <<persisted, online, coil>>

(* import ... / from ... import ...                                        *)
Import ==
    /\ Ready("import")
    /\ pc' = pc + 1
    /\ env' = [n \in {Cur.args[i].s : i \in DOMAIN Cur.args} |-> Callable(n)] @@ env
    /\ tmp' = Nil
    /\ trace' = Append(trace, Call(0, 0, 0))
    /\ UNCHANGED <<nb, status, cached, heap, partial>>
    /\ NoIO

(* name = literal                                                          *)
Assign ==
    /\ Ready("assign")
    /\ pc' = pc + 1
    /\ Bind(Cur.dst, A(1))
    /\ UNCHANGED <<nb, status, cached, heap, trace, partial>>
    /\ NoIO

(* name = dict(...): a new mapping object                                  *)
MakeDict ==
    /\ Ready("dict")
    /\ pc' = pc + 1
    /\ heap' = Append(heap, [t |-> "settings", d |-> Cur.args[1].d])
    /\ Bind(Cur.dst, Ref(New))
    /\ UNCHANGED <<nb, status, cached, trace, partial>>
    /\ NoIO

-----------------------------------------------------------------------------
(* Calls into the esinet package.                                          *)

HasChs == {"info", "raw", "epochs", "evoked"}
NoData == [n |-> 0, seed |-> 0]

(* info = get_info(sfreq=...)                                              *)
GetInfo ==
    /\ Ready("get_info")
    /\ Create([t |-> "info", chs |-> TemplateChs, sfreq |-> A(1).id], 0, 0)
    /\ NoIO

(* fwd = create_forward_model(info=info, sampling=...)                     *)
CreateForwardModel ==
    /\ Ready("create_forward_model")
    /\ IsT(A(1), {"info"})
    /\ Create([t |-> "fwd", chs |-> heap[A(1).id].chs, ori |-> "fixed",
                by |-> "create_forward_model"], A(1).id, 0)
    /\ NoIO

(* Simulation(fwd, info, settings=...)                                     *)
NewSimulation ==
    /\ Ready("Simulation")
    /\ IsT(A(1), {"fwd"})
    /\ IsT(A(2), HasChs)
    /\ A(3) = Nil \/ IsT(A(3), {"settings"})
    /\ Create([t |-> "sim", fwd |-> A(1).id, info |-> A(2).id,
                settings |-> IdOf(A(3)), data |-> NoData], A(1).id, IdOf(A(3)))
    /\ NoIO

(* sim.simulate(n_samples): draws the dataset into sim and returns sim     *)
Simulate ==
    /\ Ready("simulate")
    /\ IsT(A(1), {"sim"})
    /\ A(2).k = "int"
    /\ \E seed \in 1..MaxSeed :
          Step(A(1),
               [heap EXCEPT ![A(1).id].data = [n |-> A(2).id, seed |-> seed]],
               A(1).id, 0)
    /\ NoIO

(* Net(fwd, model_type=..., verbose=...)                                   *)
NewNet ==
    /\ Ready("Net")
    /\ IsT(A(1), {"fwd"})
    /\ Create([t |-> "net", fwd |-> A(1).id, model_type |-> A(2).s,
                verbose |-> A(3).id, fits |-> <<>>], A(1).id, 0)
    /\ NoIO

(* net.fit(sim, epochs=...): trains net on sim and returns net             *)
Fit ==
    /\ Ready("fit")
    /\ IsT(A(1), {"net"})
    /\ IsT(A(2), {"sim"})
    /\ Step(A(1),
            [heap EXCEPT ![A(1).id].fits =
                Append(@, [sim |-> A(2).id, epochs |-> A(3).id])],
            A(1).id, A(2).id)
    /\ NoIO

(* the sensors of a dataset: a Simulation keeps the channels of its        *)
(* forward model that its info names                                       *)
DataChs(i) ==
    IF heap[i].t = "sim"
    THEN heap[heap[i].fwd].chs \cap heap[heap[i].info].chs
    ELSE heap[i].chs

(* number of samples a dataset holds: a Simulation has n_samples, an       *)
(* evoked response is one sample                                           *)
NSamples(i) == IF heap[i].t = "sim" THEN heap[i].data.n ELSE 1

(* net.predict(data): a list with one source estimate per sample           *)
Predict ==
    /\ Ready("predict")
    /\ IsT(A(1), {"net"})
    /\ IsT(A(2), {"sim", "evoked", "epochs"})
    /\ Create([t |-> "stcs", net |-> A(1).id, data |-> A(2).id,
                n |-> NSamples(A(2).id)], A(1).id, A(2).id)
    /\ NoIO

(* predictions[i]                                                          *)
GetItem ==
    /\ Ready("getitem")
    /\ IsT(A(1), {"stcs"})
    /\ A(2).id < heap[A(1).id].n
    /\ Create([t |-> "stc", of |-> A(1).id, idx |-> A(2).id], A(1).id, 0)
    /\ NoIO

(* sim.source_data[i]                                                      *)
SourceData ==
    /\ Ready("source_data")
    /\ IsT(A(1), {"sim"})
    /\ Create([t |-> "stc", of |-> A(1).id, idx |-> A(2).id], A(1).id, 0)
    /\ NoIO

(* x.plot(...), x.plot_locations(...): a rendered figure                   *)
Plot ==
    /\ Ready("plot")
    /\ A(1).k = "ref"
    /\ Create([t |-> "fig", of |-> A(1).id, text |-> <<>>], A(1).id, 0)
    /\ NoIO

(* brain.add_text(..., title, ...)                                         *)
AddText ==
    /\ Ready("add_text")
    /\ IsT(A(1), {"fig"})
    /\ Step(Nil, [heap EXCEPT ![A(1).id].text = Append(@, A(2).s)], A(1).id, 0)
    /\ NoIO

-----------------------------------------------------------------------------
(* Calls into MNE-Python.                                                  *)

OpmDataset == "MNE-OPM-data"
MneConfigFile == "mne-python.json"

(* data_path() fetching the dataset again although it is on disk          *)
DataPathForceUpdate ==
    /\ Ready("data_path")
    /\ Step(Str(OpmDataset), heap, 0, 0)
    /\ online' = TRUE
    /\ persisted' = persisted \cup {OpmDataset}
    /\ UNCHANGED coil

(* mne.datasets.opm.data_path(): fetches the dataset unless it is on disk  *)
DataPath ==
    /\ Ready("data_path")
    /\ Step(Str(OpmDataset), heap, 0, 0)
    /\ online' = (online \/ ~cached)
    /\ persisted' = IF cached THEN persisted ELSE persisted \cup {OpmDataset}
    /\ UNCHANGED coil

(* mne.io.read_raw_fif(raw_fname, preload=True)                            *)
ReadRaw ==
    /\ Ready("read_raw_fif")
    /\ Create([t |-> "raw", chs |-> OpmRawChs, bads |-> {}, proc |-> <<>>], 0, 0)
    /\ NoIO

(* raw.filter(...), raw.notch_filter(...): filters raw in place            *)
Filter ==
    /\ Ready("filter")
    /\ IsT(A(1), {"raw"})
    /\ Step(Nil, [heap EXCEPT ![A(1).id].proc = Append(@, A(2).s)], A(1).id, 0)
    /\ NoIO

(* a call whose result the notebook only hands on to other MNE calls       *)
MneCall ==
    /\ Ready("mne_call")
    /\ Create([t |-> "obj", by |-> A(1).s], IdOf(A(2)), 0)
    /\ NoIO

(* picks = mne.pick_types(raw.info, meg=True, eeg=False)                   *)
PickTypes ==
    /\ Ready("pick_types")
    /\ IsT(A(1), {"raw"})
    /\ Create([t |-> "picks", chs |-> PickMeg(heap[A(1).id].chs, heap[A(1).id].bads)],
              A(1).id, 0)
    /\ NoIO

(* epochs = mne.Epochs(raw, events, ..., picks=picks, ...)                 *)
Epochs ==
    /\ Ready("Epochs")
    /\ IsT(A(1), {"raw"})
    /\ IsT(A(3), {"picks"})
    /\ Create([t |-> "epochs", chs |-> heap[A(1).id].chs \cap heap[A(3).id].chs,
                of |-> A(1).id], A(1).id, A(3).id)
    /\ NoIO

(* evoked = epochs.average()                                               *)
Average ==
    /\ Ready("average")
    /\ IsT(A(1), {"epochs"})
    /\ Create([t |-> "evoked", chs |-> heap[A(1).id].chs, of |-> A(1).id], A(1).id, 0)
    /\ NoIO

(* evoked.copy().crop(...): a cropped copy, evoked itself is left alone    *)
CopyCrop ==
    /\ Ready("copy_crop")
    /\ IsT(A(1), {"evoked"})
    /\ Create([t |-> "evoked", chs |-> heap[A(1).id].chs, of |-> A(1).id], A(1).id, 0)
    /\ NoIO

(* with mne.use_coil_def(coil_def_fname):                                  *)
UseCoilDef ==
    /\ Ready("use_coil_def")
    /\ Step(Nil, heap, 0, 0)
    /\ coil' = coil + 1
    /\ UNCHANGED <<persisted, online>>

(* the end of the with block                                               *)
ExitCoilDef ==
    /\ Ready("exit_coil_def")
    /\ Step(Nil, heap, 0, 0)
    /\ coil' = coil - 1
    /\ UNCHANGED <<persisted, online>>

(* fwd = mne.make_forward_solution(raw.info, trans, src, bem, eeg=False)   *)
MakeForwardSolution ==
    /\ Ready("make_forward_solution")
    /\ IsT(A(1), HasChs)
    /\ Create([t |-> "fwd", chs |-> ForwardChs(heap[A(1).id].chs), ori |-> "free",
                by |-> "make_forward_solution"], A(1).id, 0)
    /\ NoIO

(* mne.convert_forward_solution(fwd, force_fixed=True, copy=False):        *)
(* converts fwd itself, no copy is made                                    *)
ConvertForwardSolution ==
    /\ Ready("convert_forward_solution")
    /\ IsT(A(1), {"fwd"})
    /\ Step(A(1), [heap EXCEPT ![A(1).id].ori = "fixed"], A(1).id, 0)
    /\ NoIO

(* fig = mne.viz.plot_alignment(evoked.info, trans=trans, ..., bem=bem)    *)
PlotAlignment ==
    /\ Ready("plot_alignment")
    /\ IsT(A(1), HasChs)
    /\ Create([t |-> "fig", of |-> A(1).id, text |-> <<>>], A(1).id, 0)
    /\ NoIO

(* dip_opm, _ = mne.fit_dipole(evoked, cov, bem, trans)                    *)
FitDipole ==
    /\ Ready("fit_dipole")
    /\ IsT(A(1), {"evoked"})
    /\ Create([t |-> "obj", by |-> "fit_dipole"], A(1).id, 0)
    /\ NoIO

(* mne.minimum_norm.make_inverse_operator(evoked.info, fwd, cov, ...)      *)
MakeInverseOperator ==
    /\ Ready("make_inverse_operator")
    /\ IsT(A(1), HasChs)
    /\ IsT(A(2), {"fwd"})
    /\ Create([t |-> "inv", fwd |-> A(2).id, info |-> A(1).id], A(2).id, A(1).id)
    /\ NoIO

(* stc = mne.minimum_norm.apply_inverse(evoked, inverse_operator, ...)     *)
ApplyInverse ==
    /\ Ready("apply_inverse")
    /\ IsT(A(1), {"evoked"})
    /\ IsT(A(2), {"inv"})
    /\ Create([t |-> "stc", of |-> A(2).id, idx |-> 0], A(2).id, A(1).id)
    /\ NoIO

(* mne.set_config(key, value): writes the key to the MNE config file       *)
SetConfig ==
    /\ Ready("set_config")
    /\ Step(Nil, heap, 0, 0)
    /\ persisted' = persisted \cup {MneConfigFile}
    /\ UNCHANGED <<online, coil>>

-----------------------------------------------------------------------------
(* calls that work on their receiver in place; one that fails may leave    *)
(* the receiver partially built                                            *)
InPlaceOps == {"simulate", "fit", "filter", "convert_forward_solution", "add_text"}
Receiver ==
    IF Cur.op \in InPlaceOps /\ NamesBound /\ A(1).k = "ref" THEN {A(1).id} ELSE {}

(* the exception is swallowed and the cell goes on with its next statement *)
RaiseSwallowed ==
    /\ Running
    /\ Cur.op \notin PureOps \/ ~NamesBound
    /\ pc' = pc + 1
    /\ tmp' = Nil
    /\ partial' \in {partial, partial \cup Receiver}
    /\ UNCHANGED <<nb, status, env, heap, trace, cached, persisted, online, coil>>

(* An exception in a call, or a name that is not bound, ends the run: no   *)
(* cell catches exceptions.  Leaving a with block on the way out ends it.  *)
Raise ==
    /\ Running
    /\ Cur.op \notin PureOps \/ ~NamesBound
    /\ status' = "error"
    /\ tmp' = Nil
    /\ coil' = 0
    /\ partial' \in {partial, partial \cup Receiver}
    /\ UNCHANGED <<nb, pc, env, heap, trace, cached, persisted, online>>

(* the last cell has run                                                   *)
Finish ==
    /\ status = "run"
    /\ pc = Len(Prog) + 1
    /\ status' = "done"
    /\ UNCHANGED <<nb, pc, env, tmp, heap, trace, cached, persisted, online, coil,
                   partial>>

Next ==
    \/ Import \/ Assign \/ MakeDict
    \/ GetInfo \/ CreateForwardModel \/ NewSimulation \/ Simulate
    \/ NewNet \/ Fit \/ Predict \/ GetItem \/ SourceData \/ Plot \/ AddText
    \/ DataPath \/ ReadRaw \/ Filter \/ MneCall \/ PickTypes \/ Epochs \/ Average
    \/ CopyCrop \/ UseCoilDef \/ ExitCoilDef \/ MakeForwardSolution
    \/ ConvertForwardSolution \/ PlotAlignment \/ FitDipole
    \/ MakeInverseOperator \/ ApplyInverse \/ SetConfig
    \/ Raise \/ Finish

Spec == Init /\ [][Next]_vars

-----------------------------------------------------------------------------
(* Properties of the executions.                                           *)

Done == status = "done"
OfType(t) == {i \in DOMAIN heap : heap[i].t = t}
Calls(o) == {i \in DOMAIN trace : trace[i].op = o}

(* the call at position i of the trace was preceded by a call of ops with  *)
(* result x, or with receiver x                                            *)
ReturnedBefore(i, ops, x) ==
    \E j \in 1..(i - 1) : trace[j].op \in ops /\ trace[j].out = x
CalledBefore(i, ops, x) ==
    \E j \in 1..(i - 1) : trace[j].op \in ops /\ trace[j].a = x

(* the source estimate x exists when call i plots it: the Simulation it    *)
(* is read from has been simulated, the prediction list it is taken from   *)
(* has been returned by predict, the inverse solution has been applied     *)
PlottedExists(i, x) ==
    heap[x].t = "stc" =>
        LET o == heap[x].of IN
        /\ ReturnedBefore(i, {"source_data", "getitem", "apply_inverse"}, x)
        /\ heap[o].t = "sim" => CalledBefore(i, {"simulate"}, o)
        /\ heap[o].t = "stcs" => ReturnedBefore(i, {"predict"}, o)

(* C1: the stages run in dependency order: a Simulation is constructed     *)
(* from a forward model that has been built, fit gets a Simulation that    *)
(* has been simulated, predict is called on a net that has been fit, and   *)
(* what is plotted exists.                                                 *)
DependencyOrder ==
    \A i \in DOMAIN trace :
        LET e == trace[i] IN
        /\ e.op = "Simulation" =>
              ReturnedBefore(i, {"create_forward_model", "make_forward_solution"}, e.a)
        /\ e.op = "fit" => CalledBefore(i, {"simulate"}, e.b)
        /\ e.op = "predict" => CalledBefore(i, {"fit"}, e.a)
        /\ e.op = "source_data" => CalledBefore(i, {"simulate"}, e.a)
        /\ e.op = "plot" => PlottedExists(i, e.a)

(* a run of opm_source that reached its end, having plotted a prediction   *)
WitDependencyOrder ==
    /\ Done
    /\ nb = "opm_source"
    /\ \E i \in Calls("plot") :
          heap[trace[i].a].t = "stc" /\ heap[heap[trace[i].a].of].t = "stcs"

(* forward model f has been handed to make_inverse_operator, Simulation    *)
(* or Net                                                                  *)
UsedFwd(f) == \E i \in DOMAIN heap : heap[i].t \in {"sim", "net", "inv"} /\ heap[i].fwd = f

(* C2 as stated: no step changes a forward model once it is built.         *)
ForwardModelImmutableOnceBuilt ==
    [][\A f \in DOMAIN heap : heap[f].t = "fwd" => heap'[f] = heap[f]]_vars

(* C2 as amended: a forward model is changed only by the in-place          *)
(* convert_forward_solution of opm_source cell 5, and only before its      *)
(* first use by make_inverse_operator, Simulation or Net.                  *)
ForwardModelImmutableOnceUsed ==
    [][\A f \in DOMAIN heap :
          (heap[f].t = "fwd" /\ heap'[f] # heap[f]) =>
              /\ ~UsedFwd(f)
              /\ nb = "opm_source"
              /\ Cur.op = "convert_forward_solution"
              /\ heap[f].by = "make_forward_solution"]_vars

(* the converted forward model is in use by a Simulation and a Net         *)
WitForwardModelUsed ==
    \E f \in OfType("fwd") :
        /\ heap[f].by = "make_forward_solution"
        /\ heap[f].ori = "fixed"
        /\ \E n \in OfType("net") : heap[n].fwd = f /\ heap[n].fits # <<>>

(* the simulate calls made on Simulations of settings mapping s            *)
SimulateCalls(s) == {i \in Calls("simulate") : heap[trace[i].a].settings = s}
SettingsUsed == {heap[i].settings : i \in OfType("sim")} \ {0}
SamplesDrawn(s) == {heap[trace[i].a].data.n : i \in SimulateCalls(s)}

(* C3 as stated: in tutorial_3 simulate() runs exactly once per settings   *)
(* mapping.                                                                *)
SimulatedOncePerConfiguration ==
    nb = "tutorial_3" =>
        \A s \in SettingsUsed :
            /\ Cardinality(SimulateCalls(s)) <= 1
            /\ Done => Cardinality(SimulateCalls(s)) = 1

(* C3 as amended: in tutorial_3 simulate() runs exactly once on every      *)
(* Simulation object and exactly twice per settings mapping, once for the  *)
(* training data and once for the test data.                               *)
SimulatedOncePerSimulation ==
    nb = "tutorial_3" =>
        /\ \A x \in OfType("sim") :
              /\ Cardinality({i \in Calls("simulate") : trace[i].a = x}) <= 1
              /\ Done => Cardinality({i \in Calls("simulate") : trace[i].a = x}) = 1
        /\ \A s \in SettingsUsed :
              /\ Cardinality(SimulateCalls(s)) <= 2
              /\ Done => /\ Cardinality(SimulateCalls(s)) = 2
                          /\ SamplesDrawn(s) = {env["n_samples"].id, env["n_test_samples"].id}

(* tutorial_3 ran to its end: four datasets from two settings mappings     *)
WitSimulatedTwice ==
    /\ Done
    /\ nb = "tutorial_3"
    /\ Cardinality(SettingsUsed) = 2
    /\ Cardinality(Calls("simulate")) = 4

(* the datasets net n has been fit on                                      *)
FitData(n) == {heap[n].fits[k].sim : k \in DOMAIN heap[n].fits}

(* C4 as stated: predict never gets the dataset its net was fit on.        *)
PredictOnNewData ==
    \A i \in Calls("predict") : trace[i].b \notin FitData(trace[i].a)

(* C4 as amended: predict gets the dataset its net was fit on in the last  *)
(* cell of opm_source, and nowhere else.                                   *)
PredictOnNewDataButLastCell ==
    \A i \in Calls("predict") :
        trace[i].b \in FitData(trace[i].a) <=> (nb = "opm_source" /\ trace[i].cell = 15)

(* both predictions of opm_source have been made                           *)
WitPredictLastCell ==
    /\ nb = "opm_source"
    /\ \E i, j \in Calls("predict") : trace[i].cell = 14 /\ trace[j].cell = 15

(* C5 as stated: nothing is persisted and the network is not used.         *)
NoPersistedStateNoNetwork == persisted = {} /\ ~online

(* C5 as amended: tutorial_3 persists nothing and uses no network;         *)
(* opm_source does both, through data_path (when the dataset is not on     *)
(* disk) and set_config, and through nothing else.                         *)
PersistedOnlyByMne ==
    /\ nb = "tutorial_3" => (persisted = {} /\ ~online)
    /\ online <=> (~cached /\ Calls("data_path") # {})
    /\ OpmDataset \in persisted <=> (~cached /\ Calls("data_path") # {})
    /\ MneConfigFile \in persisted <=> Calls("set_config") # {}
    /\ persisted \subseteq {OpmDataset, MneConfigFile}
    /\ (Done /\ nb = "opm_source") => MneConfigFile \in persisted

(* opm_source fetched the dataset and wrote the MNE configuration file     *)
WitPersisted ==
    /\ nb = "opm_source"
    /\ online
    /\ persisted = {OpmDataset, MneConfigFile}

Obj(name) == env[name].id

(* C7: a net is fit at most once, by the end exactly once; in tutorial_3   *)
(* net_small is fit on sim_small and net_large on sim_large, two nets for  *)
(* two configurations.                                                     *)
OneFitPerNet ==
    /\ \A n \in OfType("net") : Len(heap[n].fits) <= 1
    /\ Done => \A n \in OfType("net") : Len(heap[n].fits) = 1
    /\ (Done /\ nb = "tutorial_3") =>
          /\ OfType("net") = {Obj("net_small"), Obj("net_large")}
          /\ Obj("net_small") # Obj("net_large")
          /\ FitData(Obj("net_small")) = {Obj("sim_small")}
          /\ FitData(Obj("net_large")) = {Obj("sim_large")}
          /\ heap[Obj("sim_small")].settings = Obj("settings_small")
          /\ heap[Obj("sim_large")].settings = Obj("settings_large")
          /\ Obj("settings_small") # Obj("settings_large")

(* tutorial_3 ran to its end with both nets trained                        *)
WitBothNetsFit ==
    /\ Done
    /\ nb = "tutorial_3"
    /\ \A n \in {Obj("net_small"), Obj("net_large")} : heap[n].fits # <<>>

PredictCalls(n, d) == {i \in Calls("predict") : trace[i].a = n /\ trace[i].b = d}

(* C8: by the end of tutorial_3 each of the two nets has been applied to   *)
(* the test data of each of the two configurations, each pair exactly      *)
(* once, and predict has been called for nothing else.                     *)
CrossEvaluated ==
    nb = "tutorial_3" =>
        /\ \A i, j \in Calls("predict") :
              (trace[i].a = trace[j].a /\ trace[i].b = trace[j].b) => i = j
        /\ Done =>
              /\ \A n \in {Obj("net_small"), Obj("net_large")} :
                 \A d \in {Obj("sim_test_small"), Obj("sim_test_large")} :
                    Cardinality(PredictCalls(n, d)) = 1
              /\ Cardinality(Calls("predict")) = 4
              /\ Obj("net_small") # Obj("net_large")
              /\ heap[Obj("sim_test_small")].settings = Obj("settings_small")
              /\ heap[Obj("sim_test_large")].settings = Obj("settings_large")

(* tutorial_3 ran to its end and the last prediction is on a figure        *)
WitCrossEvaluated ==
    /\ Done
    /\ nb = "tutorial_3"
    /\ \E g \in OfType("fig") : heap[g].text = <<"Small-Net on large data">>

RecognizedKeys ==
    {"number_of_sources", "extents", "amplitudes", "shapes", "beta", "duration_of_trial"}
RangeKeys == {"number_of_sources", "extents", "amplitudes", "beta"}

(* C10: every settings mapping of the notebooks, those passed to a         *)
(* Simulation among them, has recognized keys only, and its range-valued   *)
(* settings are pairs (low, high) with low <= high.                        *)
SettingsRecognized ==
    \A i \in OfType("settings") :
        /\ DOMAIN heap[i].d \subseteq RecognizedKeys
        /\ \A k \in DOMAIN heap[i].d :
              (k \in RangeKeys \/ heap[i].d[k].t = "range") =>
                  /\ heap[i].d[k].t = "range"
                  /\ heap[i].d[k].lo <= heap[i].d[k].hi

(* Simulations have been built from the settings of the notebook           *)
WitSettingsPassed ==
    /\ Done
    /\ \E x \in OfType("sim") :
          /\ heap[x].settings # 0
          /\ heap[x].data # NoData
          /\ DOMAIN heap[heap[x].settings].d # {}

(* the value is a result of Net.predict: the list of source estimates or   *)
(* one of its elements                                                     *)
IsPrediction(v) ==
    /\ v.k = "ref"
    /\ v.id \in DOMAIN heap
    /\ \/ heap[v.id].t = "stcs"
       \/ heap[v.id].t = "stc" /\ heap[heap[v.id].of].t = "stcs"

(* C11: a prediction is only indexed and plotted: no statement passes a    *)
(* result of Net.predict to Net.fit, to a Simulation or to predict, and no *)
(* such call has been made with one.                                       *)
PredictionsOnlyPlotted ==
    /\ (Running /\ NamesBound) =>
          \A i \in DOMAIN Cur.args :
              IsPrediction(A(i)) => Cur.op \in {"getitem", "plot"}
    /\ \A i \in DOMAIN trace :
          (IsPrediction(Ref(trace[i].a)) \/ IsPrediction(Ref(trace[i].b))) =>
              trace[i].op \in {"getitem", "plot"}

(* tutorial_3 ran to its end with its four predictions plotted             *)
WitPredictionsPlotted ==
    /\ Done
    /\ nb = "tutorial_3"
    /\ Cardinality({i \in Calls("plot") : IsPrediction(Ref(trace[i].a))}) = 4

(* the statements before pc that make a call, and the names the           *)
(* statements before pc bind                                               *)
IsCall(st) == st.op \notin {"assign", "dict"}
Executed == SelectSeq(SubSeq(Prog, 1, pc - 1), IsCall)
NamesOf(st) ==
    IF st.op = "import" THEN {st.args[i].s : i \in DOMAIN st.args}
    ELSE {st.dst} \ {"", "$"}
BoundBefore(k) == UNION {NamesOf(Prog[j]) : j \in 1..(k - 1)}

(* C12: an exception propagates uncaught: the run stops at the failed      *)
(* statement, which binds nothing; exactly the statements before it have   *)
(* run, nothing runs after it, and no fit or predict has run on an object  *)
(* a failed call left partially built.                                     *)
ExceptionsPropagate ==
    /\ [](/\ Len(trace) = Len(Executed)
          /\ \A j \in DOMAIN trace :
                trace[j].op = Executed[j].op /\ trace[j].line = Executed[j].line
          /\ DOMAIN env = BoundBefore(pc)
          /\ partial # {} => status = "error"
          /\ \A i \in Calls("fit") \cup Calls("predict") :
                {trace[i].a, trace[i].b} \cap partial = {})
    /\ [][/\ status # "run" => vars' = vars
          /\ status' = "error" => (pc' = pc /\ env' = env /\ trace' = trace)]_vars

(* simulate() failed in the last cell of opm_source and left the new       *)
(* Simulation, already bound to sim, partially built                       *)
WitSimulateFailed ==
    /\ status = "error"
    /\ nb = "opm_source"
    /\ Cur.op = "simulate"
    /\ Cur.cell = 15
    /\ partial = {Obj("sim")}

ScopedOps == {"make_forward_solution", "plot_alignment", "fit_dipole"}
UnscopedOps ==
    {"convert_forward_solution", "make_inverse_operator", "Simulation", "fit", "predict"}

(* C14: in opm_source make_forward_solution, plot_alignment and fit_dipole *)
(* run inside a use_coil_def scope; scopes are not nested, a scope is left *)
(* before the next top-level statement and when its call raises, and none  *)
(* is active during convert_forward_solution, make_inverse_operator,       *)
(* Simulation, fit or predict.                                             *)
CoilDefScoped ==
    /\ coil \in {0, 1}
    /\ \A i \in DOMAIN trace :
          /\ trace[i].op \in ScopedOps => trace[i].coil = 1
          /\ trace[i].op \in UnscopedOps \cup {"use_coil_def"} => trace[i].coil = 0
    /\ status # "run" => coil = 0
    /\ (Running /\ coil = 1) =>
          /\ nb = "opm_source"
          /\ Cur.op \in ScopedOps \cup {"copy_crop", "exit_coil_def"}
    /\ (Running /\ Cur.op \in ScopedOps) => coil = 1
    /\ (Done /\ nb = "opm_source") =>
          \A o \in ScopedOps : Cardinality(Calls(o)) = 1

(* fit_dipole raised inside its scope and the scope has been left          *)
WitCoilDefLeft ==
    /\ status = "error"
    /\ Cur.op = "fit_dipole"
    /\ coil = 0
    /\ Cardinality(Calls("use_coil_def")) = 3

(* the prediction list a figure shows an element of                        *)
ShownPrediction(g) == heap[heap[g].of].of
Titled(x) == {g \in OfType("fig") : heap[g].text = <<x>>}

(* C15: in tutorial_3 cell 11 each net is tested on a dataset other than   *)
(* its training dataset but of the same settings mapping, forward model    *)
(* and info; the two settings mappings differ only in extents, whose       *)
(* ranges 15-25 and 35-45 do not overlap.                                  *)
WithinTypeEvaluation ==
    nb = "tutorial_3" =>
        /\ \A i \in Calls("predict") :
              trace[i].cell = 11 =>
                  \A x \in FitData(trace[i].a) :
                      LET d == trace[i].b IN
                      /\ d # x
                      /\ heap[d].settings = heap[x].settings
                      /\ heap[d].fwd = heap[x].fwd
                      /\ heap[d].info = heap[x].info
        /\ {"settings_small", "settings_large"} \subseteq DOMAIN env =>
              LET ds == heap[Obj("settings_small")].d
                  dl == heap[Obj("settings_large")].d
              IN  /\ DOMAIN ds = DOMAIN dl
                  /\ \A k \in DOMAIN ds \ {"extents"} : ds[k] = dl[k]
                  /\ ds["extents"] = Range(15, 25)
                  /\ dl["extents"] = Range(35, 45)
                  /\ ds["extents"].hi < dl["extents"].lo
        /\ \A g \in Titled("Small-Net on small data") :
              /\ heap[ShownPrediction(g)].net = Obj("net_small")
              /\ heap[heap[ShownPrediction(g)].data].settings = Obj("settings_small")
        /\ \A g \in Titled("Large-Net on large data") :
              /\ heap[ShownPrediction(g)].net = Obj("net_large")
              /\ heap[heap[ShownPrediction(g)].data].settings = Obj("settings_large")

(* both within-type figures of cell 11 have been made                      *)
WitWithinType ==
    /\ nb = "tutorial_3"
    /\ Titled("Small-Net on small data") # {}
    /\ Titled("Large-Net on large data") # {}

====
